---------------------------- MODULE Spec2Model ----------------------------
(***************************************************************************)
(* Model of the ROS bag tools: scripts/export_csv.py, scripts/pick_topics.py *)
(* and scripts/remove_topics.py.                                           *)
(*                                                                         *)
(* Strings that the code joins and splits (field names) are sequences of   *)
(* one-character strings, so that '.'.join and str.split('.') are computed. *)
(* A message is a value with __slots__: an ordered list of fields, each a   *)
(* name and a value that is a scalar or again a message.                    *)
(***************************************************************************)
EXTENDS Integers, Sequences, FiniteSets, TLC

(***************************************************************************)
(* Bounds                                                                  *)
(***************************************************************************)
\* total number of declared fields (at all nesting levels) of a generated payload
MaxFields == 3
\* number of records of a source log
MaxRecords == 3
\* number of bag files of a batch (main)
MaxBags == 2

(***************************************************************************)
(* Values                                                                  *)
(***************************************************************************)
Dot == "."
Names == {<<"a">>, <<"b">>, <<"c">>}

\* a value without __slots__
Scalar(v) == [isMsg |-> FALSE, fields |-> <<>>, val |-> v]
\* a value with __slots__: fields[i].name is __slots__[i]
Msg(fs) == [isMsg |-> TRUE, fields |-> fs, val |-> 0]
Field(n, v) == [name |-> n, value |-> v]

\* hasattr(v, '__slots__')
HasSlots(v) == v.isMsg
\* v.__slots__
Slots(v) == [i \in 1..Len(v.fields) |-> v.fields[i].name]
\* whether v.__getattribute__(s) succeeds: s is one of the declared fields
HasAttr(v, s) == v.isMsg /\ \E i \in 1..Len(v.fields) : v.fields[i].name = s
\* v.__getattribute__(s)
GetAttr(v, s) == v.fields[CHOOSE i \in 1..Len(v.fields) : v.fields[i].name = s].value

(***************************************************************************)
(* export_csv.py: flatten_topic_fields and get_field_value                  *)
(***************************************************************************)
\* a mutated join, which prefixes nothing
JoinPrefixBare(field_prefix, s) == s

\* '.'.join([field_prefix, s]) if field_prefix else s
JoinPrefix(field_prefix, s) ==
    IF field_prefix # <<>> THEN field_prefix \o <<Dot>> \o s ELSE s

RECURSIVE FlattenFrom(_, _, _)
\* the loop of flatten_topic_fields over msg.__slots__, from the i-th slot on
FlattenFrom(msg, field_prefix, i) ==
    IF i > Len(msg.fields) THEN <<>>
    ELSE LET s == Slots(msg)[i]
             fieldname == JoinPrefix(field_prefix, s)
             v == GetAttr(msg, s)
         IN (IF ~HasSlots(v) THEN <<fieldname>>
             ELSE FlattenFrom(v, fieldname, 1))
            \o FlattenFrom(msg, field_prefix, i + 1)

\* a mutated flatten, which lists a branch itself before its children
RECURSIVE FlattenFromBranches(_, _, _)
FlattenFromBranches(msg, field_prefix, i) ==
    IF i > Len(msg.fields) THEN <<>>
    ELSE LET s == Slots(msg)[i]
             fieldname == JoinPrefix(field_prefix, s)
             v == GetAttr(msg, s)
         IN (IF ~HasSlots(v) THEN <<fieldname>>
             ELSE <<fieldname>> \o FlattenFromBranches(v, fieldname, 1))
            \o FlattenFromBranches(msg, field_prefix, i + 1)

flatten_topic_fields_branches(msg) == FlattenFromBranches(msg, <<>>, 1)

\* flatten_topic_fields(msg), field_prefix = ''
flatten_topic_fields(msg) == FlattenFrom(msg, <<>>, 1)

RECURSIVE Split(_)
\* fieldname.split('.')
Split(s) ==
    IF \A i \in 1..Len(s) : s[i] # Dot THEN <<s>>
    ELSE LET k == CHOOSE i \in 1..Len(s) :
                      s[i] = Dot /\ \A j \in 1..(i - 1) : s[j] # Dot
         IN <<SubSeq(s, 1, k - 1)>> \o Split(SubSeq(s, k + 1, Len(s)))

RECURSIVE Walk(_, _)
\* the loop of get_field_value: the layer reached through the segments
Walk(layer, segs) ==
    IF segs = <<>> THEN layer ELSE Walk(GetAttr(layer, Head(segs)), Tail(segs))

RECURSIVE CanWalk(_, _)
\* whether every __getattribute__ of that loop succeeds (else AttributeError)
CanWalk(layer, segs) ==
    IF segs = <<>> THEN TRUE
    ELSE HasAttr(layer, Head(segs)) /\ CanWalk(GetAttr(layer, Head(segs)), Tail(segs))

\* whether get_field_value(msg, fieldname) raises AttributeError
get_field_value_raises(msg, fieldname) == ~CanWalk(msg, Split(fieldname))
\* get_field_value(msg, fieldname)
get_field_value(msg, fieldname) == Walk(msg, Split(fieldname))

(***************************************************************************)
(* Payloads                                                                *)
(***************************************************************************)
RECURSIVE MsgsOfSize(_)
RECURSIVE FieldLists(_, _)
\* the values a field may hold that declare k fields in all
ValuesOfSize(k) == IF k = 0 THEN {Scalar(1), Msg(<<>>)} ELSE MsgsOfSize(k)
\* the field lists that declare n fields in all, with names outside used
FieldLists(n, used) ==
    IF n = 0 THEN {<<>>}
    ELSE UNION {UNION {UNION {{<<Field(s, v)>> \o rest :
                                  rest \in FieldLists(n - 1 - k, used \cup {s})} :
                              v \in ValuesOfSize(k)} :
                       k \in 0..(n - 1)} :
                s \in Names \ used}
MsgsOfSize(n) == {Msg(fs) : fs \in FieldLists(n, {})}
\* every message that declares at most MaxFields fields in all
Payloads == UNION {MsgsOfSize(n) : n \in 0..MaxFields}

(***************************************************************************)
(* Logs, the channel index and the tabular sink                             *)
(***************************************************************************)
None == "None"

\* the channels a caller may name; "/c" is on no source log
Channels == {"/a", "/b", "/c"}
LogChannels == {"/a", "/b"}
ChannelOrder == <<"/a", "/b", "/c">>
Range(f) == {f[i] : i \in DOMAIN f}
\* the list of the channels of S, each once
ListOf(S) == SelectSeq(ChannelOrder, LAMBDA c : c \in S)
TopicLists == {ListOf(S) : S \in SUBSET Channels}

\* rospy.Time of the i-th record of a log: half a second apart
Stamp(i) == [secs |-> i \div 2, nsecs |-> (i % 2) * 500000000]
NsecPerSec == 1000000000
\* a mutated to_sec, which drops the nanoseconds
to_sec_whole(t) == t.secs * NsecPerSec
\* t.to_sec(): secs + nsecs / 1e9, held in units of 1e-9 s
to_sec(t) == t.secs * NsecPerSec + t.nsecs

\* payloads of the records of a source log: leaves a and b.c; leaf a alone;
\* a branch a without fields
PayloadAB == Msg(<<Field(<<"a">>, Scalar(1)),
                   Field(<<"b">>, Msg(<<Field(<<"c">>, Scalar(1))>>))>>)
PayloadA == Msg(<<Field(<<"a">>, Scalar(1))>>)
PayloadEmptyBranch == Msg(<<Field(<<"a">>, Msg(<<>>))>>)
LogPayloads == {PayloadAB, PayloadA, PayloadEmptyBranch}

Record(topic, msg, t) == [topic |-> topic, msg |-> msg, t |-> t]
\* the logs of exactly n records
RECURSIVE LogsOfLen(_)
LogsOfLen(n) ==
    IF n = 0 THEN {<<>>}
    ELSE {Append(l, Record(c, m, Stamp(n))) :
              l \in LogsOfLen(n - 1), c \in LogChannels, m \in LogPayloads}
SourceLogs == UNION {LogsOfLen(n) : n \in 0..MaxRecords}

\* bag.get_type_and_topic_info().topics: channel name -> message_count
TopicInfo(log) ==
    [c \in {log[i].topic : i \in DOMAIN log} |->
        Cardinality({i \in DOMAIN log : log[i].topic = c})]

\* bag.read_messages(topics=...): the place of the next record after pos on
\* one of the listed channels, 0 when the iteration is over
NextMatch(log, pos, topics) ==
    IF \E i \in (pos + 1)..Len(log) : log[i].topic \in Range(topics)
    THEN CHOOSE i \in (pos + 1)..Len(log) :
             /\ log[i].topic \in Range(topics)
             /\ \A j \in (pos + 1)..(i - 1) : log[j].topic \notin Range(topics)
    ELSE 0

\* a mutated write, which stamps the record anew
BagWriteRestamp(log, topic, msg, t) == Append(log, Record(topic, msg, Stamp(Len(log) + 1)))
\* outbag.write(topic, msg, t=t)
BagWrite(log, topic, msg, t) == Append(log, Record(topic, msg, t))

\* the column '_ros_time_sec'
RosTimeSec == <<"_", "r", "o", "s", "_", "t", "i", "m", "e", "_", "s", "e", "c">>
\* csv_writer.writeheader(): the line of the column names
HeaderLine(columns) == [kind |-> "header", names |-> columns, cells |-> <<>>]
\* csv_writer.writerow(row): the values of the row in the order of the columns
RowLine(columns, row) ==
    [kind |-> "row", names |-> <<>>, cells |-> [k \in 1..Len(columns) |-> row[columns[k]]]]
\* the row built from a record: the time first, a field of that name over it
RowOf(names, msg, t) ==
    [c \in {RosTimeSec} \cup Range(names) |->
        IF c \in Range(names) THEN get_field_value(msg, c) ELSE Scalar(to_sec(t))]

\* a mutated complement, which keeps the requested channels
TopicsRemainRequested(ttinfo_topics, topics) ==
    ListOf({c \in DOMAIN ttinfo_topics : c \in Range(topics)})
\* remove_topics_from_bag: the channels of the index that are not requested
TopicsRemain(ttinfo_topics, topics) ==
    ListOf({c \in DOMAIN ttinfo_topics : c \notin Range(topics)})

RECURSIVE SumCounts(_, _)
\* total += ttinfo.topics[topic_name].message_count, over the list
SumCounts(ttinfo_topics, names) ==
    IF names = <<>> THEN 0
    ELSE ttinfo_topics[Head(names)] + SumCounts(ttinfo_topics, Tail(names))

(***************************************************************************)
(* The files of a run                                                      *)
(***************************************************************************)
BagPaths == {"x.bag", "y.bag", "missing.bag"}
File(log) == [exists |-> TRUE, log |-> log]
NoFile == [exists |-> FALSE, log |-> <<>>]
\* the bag files of a batch: one that exports cleanly, one whose second record
\* on /a lacks the field b.c of the first, and a path that cannot be opened
LogX == <<Record("/a", PayloadAB, Stamp(1)), Record("/b", PayloadA, Stamp(2)),
          Record("/a", PayloadAB, Stamp(3))>>
LogY == <<Record("/a", PayloadAB, Stamp(1)), Record("/a", PayloadA, Stamp(2))>>
BatchFiles == [p \in BagPaths |->
                 IF p = "x.bag" THEN File(LogX)
                 ELSE IF p = "y.bag" THEN File(LogY) ELSE NoFile]

\* a call of one of the three operations
CallOf(fn, path_bag, topics, progress) ==
    [fn |-> fn, path_bag |-> path_bag, topics |-> topics, progress |-> progress]
NoCall == CallOf("none", "x.bag", <<>>, FALSE)

RECURSIVE Concat(_)
Concat(ss) == IF ss = <<>> THEN <<>> ELSE Head(ss) \o Concat(Tail(ss))
\* main of export_csv.py: every bag, every topic, progress=True
ExportMainPlan(bags, topics) ==
    Concat([i \in 1..Len(bags) |->
               [j \in 1..Len(topics) |->
                   CallOf("export", bags[i], <<topics[j]>>, TRUE)]])
\* main of pick_topics.py and of remove_topics.py: every bag, progress=True
TransferMainPlan(fn, bags, topics) ==
    [i \in 1..Len(bags) |-> CallOf(fn, bags[i], topics, TRUE)]
MainPlan(s, bags, topics) ==
    IF s = "export_csv" THEN ExportMainPlan(bags, topics)
    ELSE IF s = "pick_topics" THEN TransferMainPlan("pick", bags, topics)
    ELSE TransferMainPlan("remove", bags, topics)

\* the operations called by a caller of its own, which handles what they raise:
\* one channel exported, and one channel list picked and removed, each without
\* and with the progress bar
ExportCalls(topic_name) ==
    <<CallOf("export", "x.bag", <<topic_name>>, FALSE),
      CallOf("export", "x.bag", <<topic_name>>, TRUE)>>
TransferCalls(topics) ==
    <<CallOf("pick", "x.bag", topics, FALSE), CallOf("pick", "x.bag", topics, TRUE),
      CallOf("remove", "x.bag", topics, FALSE), CallOf("remove", "x.bag", topics, TRUE)>>
CallPlans == {ExportCalls(c) : c \in Channels} \cup {TransferCalls(ts) : ts \in TopicLists}

RECURSIVE SeqsOfLen(_, _)
SeqsOfLen(S, n) ==
    IF n = 0 THEN {<<>>} ELSE {Append(q, x) : q \in SeqsOfLen(S, n - 1), x \in S}
\* args.bags: one to MaxBags paths
BagLists == UNION {SeqsOfLen(BagPaths, n) : n \in 1..MaxBags}

(***************************************************************************)
(* State                                                                   *)
(***************************************************************************)
VARIABLES
    pc,            \* the place of the running script or call
    fl_msg,        \* flatten_topic_fields alone: its payload,
    fl_in,         \*   the payload as it was given,
    fl_out,        \*   and its result
    fs,            \* the bag files: path -> file
    script,        \* the script that runs, or "call" for a caller of its own
    plan,          \* the calls still to make
    call,          \* the call that runs
    n_msgs,        \* the locals of the running call
    fieldnames,
    topics_remain,
    pbar,
    pos,           \* the place of bag.read_messages in the source log
    bag,           \* the handles: "None", "open" or "closed"
    outbag,
    csv_file,
    sink,          \* the lines of the csv file
    dest,          \* the records of the output bag
    exc,           \* the exception raised by the call
    ret,           \* the value returned by the call
    results        \* the calls that ended, in order

flvars == <<fl_msg, fl_in, fl_out>>
inputs == <<fs, script>>
locals == <<n_msgs, fieldnames, topics_remain, pbar, pos>>
handles == <<bag, outbag, csv_file>>
vars == <<pc, fl_msg, fl_in, fl_out, fs, script, plan, call, n_msgs, fieldnames,
          topics_remain, pbar, pos, bag, outbag, csv_file, sink, dest, exc, ret,
          results>>

\* the state of the operations while none has been called
NoRun ==
    /\ call = NoCall
    /\ n_msgs = 0 /\ fieldnames = None /\ topics_remain = None /\ pbar = None
    /\ pos = 0
    /\ bag = None /\ outbag = None /\ csv_file = None
    /\ sink = <<>> /\ dest = <<>>
    /\ exc = None /\ ret = None
    /\ results = <<>>

(***************************************************************************)
(* Specification of flatten_topic_fields as a function of its payload        *)
(***************************************************************************)
InitFlatten ==
    /\ pc = "flatten"
    /\ fl_msg \in Payloads
    /\ fl_in = fl_msg
    /\ fl_out = None
    /\ fs = BatchFiles /\ script = "call" /\ plan = <<>>
    /\ NoRun

FlattenCall ==
    /\ pc = "flatten"
    /\ pc' = "flattened"
    /\ fl_out' = flatten_topic_fields(fl_msg)
    /\ UNCHANGED <<fl_msg, fl_in, inputs, plan, call, locals, handles, sink, dest,
                   exc, ret, results>>

NextFlatten == FlattenCall

SpecFlatten == InitFlatten /\ [][NextFlatten]_vars

(***************************************************************************)
(* The scripts and their operations                                         *)
(***************************************************************************)
\* the source log of the running call, and its index
SourceLog == fs[call.path_bag].log
ttinfo_topics == TopicInfo(SourceLog)
\* export_topic_to_csv's topic_name
topic_name == call.topics[1]

\* a script is started on its arguments
InitMain ==
    /\ script \in {"export_csv", "pick_topics", "remove_topics"}
    /\ fs = BatchFiles
    /\ \E bags \in BagLists, topics \in TopicLists \ {<<>>} :
           plan = MainPlan(script, bags, topics)

\* a caller of its own has one source log and a list of calls to make
InitCalls ==
    /\ script = "call"
    /\ \E log \in SourceLogs : fs = [BatchFiles EXCEPT !["x.bag"] = File(log)]
    /\ plan \in CallPlans

Init ==
    /\ pc = "idle"
    /\ fl_msg = Msg(<<>>) /\ fl_in = fl_msg /\ fl_out = None
    /\ InitMain \/ InitCalls
    /\ NoRun

\* the next call of the plan is entered: n_msgs = 0, fieldnames = None,
\* csv_file = None
Call ==
    /\ pc = "idle" /\ plan # <<>>
    /\ call' = Head(plan) /\ plan' = Tail(plan)
    /\ n_msgs' = 0 /\ fieldnames' = None /\ topics_remain' = None /\ pbar' = None
    /\ pos' = 0
    /\ bag' = None /\ outbag' = None /\ csv_file' = None
    /\ sink' = <<>> /\ dest' = <<>>
    /\ exc' = None /\ ret' = None
    /\ pc' = "open"
    /\ UNCHANGED <<flvars, inputs, results>>

\* what is known of a call when it has ended
Ended(outcome) ==
    [call |-> call, outcome |-> outcome, exc |-> exc, ret |-> ret,
     n_msgs |-> n_msgs, topics_remain |-> topics_remain,
     bag |-> bag, outbag |-> outbag, csv_file |-> csv_file,
     sink |-> sink, dest |-> dest]

\* the call returned: the loop of main, or the caller, goes on
Return ==
    /\ pc = "returned"
    /\ results' = Append(results, Ended("returned"))
    /\ pc' = "idle"
    /\ UNCHANGED <<flvars, inputs, plan, call, locals, handles, sink, dest, exc, ret>>

\* the call raised under a caller that handles the exception
CallerCatch ==
    /\ pc = "raised" /\ script = "call"
    /\ results' = Append(results, Ended("raised"))
    /\ pc' = "idle"
    /\ UNCHANGED <<flvars, inputs, plan, call, locals, handles, sink, dest, exc, ret>>

\* the call raised under main, which has no handler: the script ends there
MainUncaught ==
    /\ pc = "raised" /\ script # "call"
    /\ results' = Append(results, Ended("raised"))
    /\ pc' = "crashed"
    /\ UNCHANGED <<flvars, inputs, plan, call, locals, handles, sink, dest, exc, ret>>

\* the loops of main are over
MainExit ==
    /\ pc = "idle" /\ plan = <<>>
    /\ pc' = "exited"
    /\ UNCHANGED <<flvars, inputs, plan, call, locals, handles, sink, dest, exc, ret,
                   results>>

----------------------------------------------------------------------------
\* export_topic_to_csv: bag = rosbag.Bag(path_bag)
ExportOpen ==
    /\ pc = "open" /\ call.fn = "export"
    /\ IF fs[call.path_bag].exists
       THEN bag' = "open" /\ pc' = "progress" /\ exc' = exc
       ELSE bag' = bag /\ pc' = "raised" /\ exc' = "IOError"
    /\ UNCHANGED <<flvars, inputs, plan, call, locals, outbag, csv_file, sink, dest,
                   ret, results>>

\* export_topic_to_csv: the progress bar, total = the index's count of topic_name
ExportInitProgress ==
    /\ pc = "progress" /\ call.fn = "export"
    /\ IF ~call.progress
       THEN pbar' = pbar /\ pc' = "loop" /\ exc' = exc
       ELSE IF topic_name \notin DOMAIN ttinfo_topics
       THEN pbar' = pbar /\ pc' = "raised" /\ exc' = "KeyError"
       ELSE /\ pbar' = [total |-> ttinfo_topics[topic_name], n |-> 0]
            /\ pc' = "loop" /\ exc' = exc
    /\ UNCHANGED <<flvars, inputs, plan, call, n_msgs, fieldnames, topics_remain, pos,
                   handles, sink, dest, ret, results>>

\* export_topic_to_csv: one pass of the loop over bag.read_messages: on the
\* first record the fields are flattened, the csv file opened and its header
\* written; then the row is built and written
ExportReadMessage ==
    /\ pc = "loop" /\ call.fn = "export"
    /\ NextMatch(SourceLog, pos, <<topic_name>>) # 0
    /\ LET i == NextMatch(SourceLog, pos, <<topic_name>>)
           msg == SourceLog[i].msg
           t == SourceLog[i].t
           first == fieldnames = None
           names == IF first THEN flatten_topic_fields(msg) ELSE fieldnames
           columns == <<RosTimeSec>> \o names
           opened == IF first THEN sink \o <<HeaderLine(columns)>> ELSE sink
       IN /\ pos' = i
          /\ fieldnames' = names
          /\ csv_file' = IF first THEN "open" ELSE csv_file
          /\ IF \E k \in 1..Len(names) : get_field_value_raises(msg, names[k])
             THEN /\ sink' = opened
                  /\ pbar' = pbar
                  /\ pc' = "raised" /\ exc' = "AttributeError"
             ELSE /\ sink' = Append(opened, RowLine(columns, RowOf(names, msg, t)))
                  /\ pbar' = IF call.progress THEN [pbar EXCEPT !.n = @ + 1] ELSE pbar
                  /\ pc' = "loop" /\ exc' = exc
    /\ UNCHANGED <<flvars, inputs, plan, call, n_msgs, topics_remain, bag, outbag,
                   dest, ret, results>>

\* export_topic_to_csv: after the loop, csv_file.close(), and the end of the
\* function body, which returns None
ExportClose ==
    /\ pc = "loop" /\ call.fn = "export"
    /\ NextMatch(SourceLog, pos, <<topic_name>>) = 0
    /\ IF csv_file = None
       THEN csv_file' = csv_file /\ pc' = "raised" /\ exc' = "AttributeError"
       ELSE csv_file' = "closed" /\ pc' = "returned" /\ exc' = exc
    /\ ret' = None
    /\ UNCHANGED <<flvars, inputs, plan, call, locals, bag, outbag, sink, dest,
                   results>>

----------------------------------------------------------------------------
\* pick_topics_from_bag: bag = rosbag.Bag(path_bag);
\* outbag = rosbag.Bag(path_outbag, mode='w')
PickOpen ==
    /\ pc = "open" /\ call.fn = "pick"
    /\ IF fs[call.path_bag].exists
       THEN bag' = "open" /\ outbag' = "open" /\ pc' = "progress" /\ exc' = exc
       ELSE bag' = bag /\ outbag' = outbag /\ pc' = "raised" /\ exc' = "IOError"
    /\ UNCHANGED <<flvars, inputs, plan, call, locals, csv_file, sink, dest, ret,
                   results>>

\* pick_topics_from_bag: the progress bar, total = the sum of the index's counts
\* of the requested topics, desc = the loop variable topic_name
PickInitProgress ==
    /\ pc = "progress" /\ call.fn = "pick"
    /\ IF ~call.progress
       THEN pbar' = pbar /\ pc' = "loop" /\ exc' = exc
       ELSE IF \E k \in 1..Len(call.topics) : call.topics[k] \notin DOMAIN ttinfo_topics
       THEN pbar' = pbar /\ pc' = "raised" /\ exc' = "KeyError"
       ELSE IF call.topics = <<>>
       THEN pbar' = pbar /\ pc' = "raised" /\ exc' = "UnboundLocalError"
       ELSE /\ pbar' = [total |-> SumCounts(ttinfo_topics, call.topics), n |-> 0]
            /\ pc' = "loop" /\ exc' = exc
    /\ UNCHANGED <<flvars, inputs, plan, call, n_msgs, fieldnames, topics_remain, pos,
                   handles, sink, dest, ret, results>>

\* pick_topics_from_bag: one pass of the loop over bag.read_messages
PickReadMessage ==
    /\ pc = "loop" /\ call.fn = "pick"
    /\ NextMatch(SourceLog, pos, call.topics) # 0
    /\ LET i == NextMatch(SourceLog, pos, call.topics)
           r == SourceLog[i]
       IN /\ pos' = i
          /\ dest' = BagWrite(dest, r.topic, r.msg, r.t)
    /\ pbar' = IF call.progress THEN [pbar EXCEPT !.n = @ + 1] ELSE pbar
    /\ UNCHANGED <<pc, flvars, inputs, plan, call, n_msgs, fieldnames, topics_remain,
                   handles, sink, exc, ret, results>>

\* pick_topics_from_bag: bag.close(); outbag.close(), and the end of the
\* function body, which returns None
PickClose ==
    /\ pc = "loop" /\ call.fn = "pick"
    /\ NextMatch(SourceLog, pos, call.topics) = 0
    /\ bag' = "closed" /\ outbag' = "closed"
    /\ ret' = None
    /\ pc' = "returned"
    /\ UNCHANGED <<flvars, inputs, plan, call, locals, csv_file, sink, dest, exc,
                   results>>

----------------------------------------------------------------------------
\* remove_topics_from_bag: bag = rosbag.Bag(path_bag);
\* outbag = rosbag.Bag(path_outbag, mode='w')
RemoveOpen ==
    /\ pc = "open" /\ call.fn = "remove"
    /\ IF fs[call.path_bag].exists
       THEN bag' = "open" /\ outbag' = "open" /\ pc' = "resolve" /\ exc' = exc
       ELSE bag' = bag /\ outbag' = outbag /\ pc' = "raised" /\ exc' = "IOError"
    /\ UNCHANGED <<flvars, inputs, plan, call, locals, csv_file, sink, dest, ret,
                   results>>

\* remove_topics_from_bag: the topics to keep
RemoveTopicsRemain ==
    /\ pc = "resolve" /\ call.fn = "remove"
    /\ topics_remain' = TopicsRemain(ttinfo_topics, call.topics)
    /\ pc' = "progress"
    /\ UNCHANGED <<flvars, inputs, plan, call, n_msgs, fieldnames, pbar, pos, handles,
                   sink, dest, exc, ret, results>>

\* remove_topics_from_bag: the progress bar, total = the sum of the index's
\* counts of the topics to keep
RemoveInitProgress ==
    /\ pc = "progress" /\ call.fn = "remove"
    /\ pbar' = IF call.progress
               THEN [total |-> SumCounts(ttinfo_topics, topics_remain), n |-> 0]
               ELSE pbar
    /\ pc' = "loop"
    /\ UNCHANGED <<flvars, inputs, plan, call, n_msgs, fieldnames, topics_remain, pos,
                   handles, sink, dest, exc, ret, results>>

\* remove_topics_from_bag: one pass of the loop over bag.read_messages
RemoveReadMessage ==
    /\ pc = "loop" /\ call.fn = "remove"
    /\ NextMatch(SourceLog, pos, topics_remain) # 0
    /\ LET i == NextMatch(SourceLog, pos, topics_remain)
           r == SourceLog[i]
       IN /\ pos' = i
          /\ dest' = BagWrite(dest, r.topic, r.msg, r.t)
    /\ pbar' = IF call.progress THEN [pbar EXCEPT !.n = @ + 1] ELSE pbar
    /\ UNCHANGED <<pc, flvars, inputs, plan, call, n_msgs, fieldnames, topics_remain,
                   handles, sink, exc, ret, results>>

\* remove_topics_from_bag: bag.close(); outbag.close(), and the end of the
\* function body, which returns None
RemoveClose ==
    /\ pc = "loop" /\ call.fn = "remove"
    /\ NextMatch(SourceLog, pos, topics_remain) = 0
    /\ bag' = "closed" /\ outbag' = "closed"
    /\ ret' = None
    /\ pc' = "returned"
    /\ UNCHANGED <<flvars, inputs, plan, call, locals, csv_file, sink, dest, exc,
                   results>>

----------------------------------------------------------------------------
Next ==
    \/ Call
    \/ Return
    \/ CallerCatch
    \/ MainUncaught
    \/ MainExit
    \/ ExportOpen
    \/ ExportInitProgress
    \/ ExportReadMessage
    \/ ExportClose
    \/ PickOpen
    \/ PickInitProgress
    \/ PickReadMessage
    \/ PickClose
    \/ RemoveOpen
    \/ RemoveTopicsRemain
    \/ RemoveInitProgress
    \/ RemoveReadMessage
    \/ RemoveClose

Spec == Init /\ [][Next]_vars

(***************************************************************************)
(* flatten_topic_fields: the leaf paths of a payload                        *)
(***************************************************************************)
RECURSIVE SegLists(_)
\* every list of exactly n names
SegLists(n) ==
    IF n = 0 THEN {<<>>} ELSE {<<s>> \o p : s \in Names, p \in SegLists(n - 1)}
\* the candidate paths of a payload: one to MaxFields names
Paths == UNION {SegLists(n) : n \in 1..MaxFields}

\* a path from the root through declared fields to a value without __slots__
IsLeafPath(msg, segs) ==
    segs # <<>> /\ CanWalk(msg, segs) /\ ~HasSlots(Walk(msg, segs))

RECURSIVE Dotted(_)
\* the segments written with a dot between them
Dotted(segs) ==
    IF Len(segs) = 1 THEN Head(segs) ELSE Head(segs) \o <<Dot>> \o Dotted(Tail(segs))

\* the place of name s in the declaration of layer v
SlotIndex(v, s) == CHOOSE i \in 1..Len(v.fields) : v.fields[i].name = s

RECURSIVE DeclaredBefore(_, _, _)
\* leaf path p comes before leaf path q in the depth-first, declaration-order
\* traversal of layer v: at the first level where they part, p's field is
\* declared first
DeclaredBefore(v, p, q) ==
    IF Head(p) = Head(q)
    THEN Len(p) > 1 /\ Len(q) > 1
         /\ DeclaredBefore(GetAttr(v, Head(p)), Tail(p), Tail(q))
    ELSE SlotIndex(v, Head(p)) < SlotIndex(v, Head(q))

\* C5: flatten_topic_fields returns exactly the leaf paths of the payload, each
\* once and dotted (children prefixed with `parent.`, root leaves bare), in
\* depth-first declaration order; a payload or branch without declared fields
\* contributes no path, and the payload is left as it was.
C5_FlattenLeafPaths ==
    pc = "flattened" =>
        /\ \A p \in Paths :
               IsLeafPath(fl_msg, p) <=>
                   \E i \in 1..Len(fl_out) : fl_out[i] = Dotted(p)
        /\ \A i \in 1..Len(fl_out) :
               \E p \in Paths :
                   IsLeafPath(fl_msg, p) /\ fl_out[i] = Dotted(p)
        /\ \A i, j \in 1..Len(fl_out) :
               i < j => /\ fl_out[i] # fl_out[j]
                        /\ DeclaredBefore(fl_msg, Split(fl_out[i]), Split(fl_out[j]))
        /\ (fl_msg.fields = <<>> => fl_out = <<>>)
        /\ fl_msg = fl_in

\* a payload with a root leaf declared after a branch that holds a leaf, flattened
C5_Witness ==
    /\ pc = "flattened"
    /\ fl_msg = Msg(<<Field(<<"b">>, Msg(<<Field(<<"c">>, Scalar(1))>>)),
                      Field(<<"a">>, Scalar(1))>>)
    /\ fl_out = <<<<"b", ".", "c">>, <<"a">>>>

\* a payload whose only field is a branch without fields, flattened to nothing
C5_WitnessEmptyBranch ==
    /\ pc = "flattened"
    /\ fl_msg = Msg(<<Field(<<"a">>, Msg(<<>>))>>)
    /\ fl_out = <<>>

(***************************************************************************)
(* The operations: what the calls that ended have done                      *)
(***************************************************************************)
\* the source log of an ended call
LogOf(r) == fs[r.call.path_bag].log
Opened(r) == fs[r.call.path_bag].exists
\* the records of a log on the listed channels, in the order of the log
Matching(log, topics) == SelectSeq(log, LAMBDA x : x.topic \in Range(topics))
\* a timestamp in seconds, in units of 1e-9 s
Seconds(t) == t.secs * NsecPerSec + t.nsecs
\* every matching record has every leaf path of the first one
AllExpose(ms) ==
    \A i \in 1..Len(ms) :
        \A k \in 1..Len(flatten_topic_fields(ms[1].msg)) :
            CanWalk(ms[i].msg, Split(flatten_topic_fields(ms[1].msg)[k]))
\* the sink holds the header of the first record's leaf paths, once and first,
\* and then one row per matching record, in order, with that record's time
HeaderAndRows(r, ms) ==
    /\ Len(r.sink) = Len(ms) + 1
    /\ r.sink[1].kind = "header"
    /\ r.sink[1].names = <<RosTimeSec>> \o flatten_topic_fields(ms[1].msg)
    /\ \A i \in 1..Len(ms) :
           /\ r.sink[i + 1].kind = "row"
           /\ Len(r.sink[i + 1].cells) = Len(r.sink[1].names)
           /\ r.sink[i + 1].cells[1] = Scalar(Seconds(ms[i].t))

\* C1, as stated: for every source log and every channel with N >= 1 matching
\* records, the export writes the header once and first, with the columns
\* _ros_time_sec and the leaf paths of the first matching record, and then
\* exactly N rows in source order, each with its record's time in seconds.
C1_AsStated ==
    \A k \in 1..Len(results) :
        LET r == results[k]
            ms == Matching(LogOf(r), r.call.topics)
        IN (r.call.fn = "export" /\ Opened(r) /\ Len(ms) >= 1) => HeaderAndRows(r, ms)

\* C1, amended: the same, for every channel whose matching records all have
\* every leaf path of the first matching record.
C1_ExportHeaderAndRows ==
    \A k \in 1..Len(results) :
        LET r == results[k]
            ms == Matching(LogOf(r), r.call.topics)
        IN (r.call.fn = "export" /\ Opened(r) /\ Len(ms) >= 1 /\ AllExpose(ms))
               => r.outcome = "returned" /\ HeaderAndRows(r, ms)

\* an export of the two records of a channel, out of the three of the log, with
\* the leaves a and b.c, has ended with the header and two rows
C1_Witness ==
    \E k \in 1..Len(results) :
        LET r == results[k]
            ms == Matching(LogOf(r), r.call.topics)
        IN /\ r.call.fn = "export" /\ r.outcome = "returned"
           /\ Len(ms) = 2 /\ Len(LogOf(r)) = 3
           /\ ms[1].msg = PayloadAB /\ ms[2].msg = PayloadAB
           /\ r.sink[1].names = <<RosTimeSec, <<"a">>, <<"b", ".", "c">>>>
           /\ Len(r.sink) = 3

\* the inclusion list of a transfer: the requested topics, or the topics to keep
Inclusion(r) == IF r.call.fn = "pick" THEN r.call.topics ELSE r.topics_remain

Count(log, x) == Cardinality({i \in DOMAIN log : log[i] = x})

\* C3, as stated: for every source log and every requested channel set S, the
\* outputs of pick(S) and of remove(S) partition the source's records: every
\* source record is in exactly one of the two, and the two counts sum to the
\* source's.
C3_PickRemovePartition ==
    \A k1, k2 \in 1..Len(results) :
        LET p == results[k1]
            q == results[k2]
        IN (/\ p.call.fn = "pick" /\ q.call.fn = "remove"
            /\ p.call.path_bag = q.call.path_bag /\ p.call.topics = q.call.topics
            /\ Opened(p))
           => /\ \A i \in DOMAIN LogOf(p) :
                     Count(p.dest, LogOf(p)[i]) + Count(q.dest, LogOf(p)[i]) = 1
              /\ Len(p.dest) + Len(q.dest) = Len(LogOf(p))

\* the same of the calls that completed
C3_PartitionWhenCompleted ==
    \A k1, k2 \in 1..Len(results) :
        LET p == results[k1]
            q == results[k2]
        IN (/\ p.call.fn = "pick" /\ q.call.fn = "remove"
            /\ p.call.path_bag = q.call.path_bag /\ p.call.topics = q.call.topics
            /\ p.outcome = "returned" /\ q.outcome = "returned")
           => /\ \A i \in DOMAIN LogOf(p) :
                     Count(p.dest, LogOf(p)[i]) + Count(q.dest, LogOf(p)[i]) = 1
              /\ Len(p.dest) + Len(q.dest) = Len(LogOf(p))

C4_WitnessEmptyInclusion ==
    \E k \in 1..Len(results) :
        LET r == results[k]
        IN /\ r.call.fn = "remove" /\ r.outcome = "returned"
           /\ r.call.topics = <<"/a", "/b">>
           /\ Len(LogOf(r)) = 3
           /\ r.topics_remain = <<>>
           /\ r.dest = <<>>

\* C6: exporting a channel with no matching record completes normally, and
\* the sink has no header and no rows.
C6_ExportEmptyCompletes ==
    \A k \in 1..Len(results) :
        LET r == results[k]
        IN (/\ r.call.fn = "export" /\ Opened(r)
            /\ Matching(LogOf(r), r.call.topics) = <<>>)
           => r.outcome = "returned" /\ r.sink = <<>>

\* the data rows of a sink
Rows(lines) == SelectSeq(lines, LAMBDA l : l.kind = "row")
\* the number of rows or records a call wrote
Written(r) == IF r.call.fn = "export" THEN Len(Rows(r.sink)) ELSE Len(r.dest)

\* C7: every operation that completes returns the number of rows or records it
\* wrote.
C7_ReturnsCount ==
    \A k \in 1..Len(results) :
        LET r == results[k]
        IN r.outcome = "returned" => (r.ret # None /\ r.ret = Written(r))

\* C8: when an operation has ended, normally or by an error, what it opened is
\* closed: the csv sink of an export, both logs of a pick or a remove.
C8_ClosedAtEnd ==
    \A k \in 1..Len(results) :
        LET r == results[k]
        IN /\ r.call.fn = "export" => r.csv_file # "open"
           /\ r.call.fn \in {"pick", "remove"} => (r.bag # "open" /\ r.outbag # "open")

\* C9: in a batch, an error of one file or channel is caught at the loop of
\* main and the rest of the batch is still processed: when the script has
\* ended, no call of the batch is left.
C9_BatchContinues ==
    (script # "call" /\ pc \in {"exited", "crashed"}) => plan = <<>>

\* C10: with the progress bar an export or a pick gives the same output and the
\* same outcome as without.
C10_ProgressAdvisory ==
    \A k1, k2 \in 1..Len(results) :
        LET p == results[k1]
            q == results[k2]
        IN (/\ p.call.fn \in {"export", "pick"} /\ p.call.fn = q.call.fn
            /\ p.call.path_bag = q.call.path_bag /\ p.call.topics = q.call.topics
            /\ ~p.call.progress /\ q.call.progress)
           => /\ p.outcome = q.outcome
              /\ p.sink = q.sink /\ p.dest = q.dest

=============================================================================
